---- MODULE Spec2Model ----
(***************************************************************************)
(* Model of fgpio.GPIO (src/fgpio/fgpio.py) driven with the NanoPi board   *)
(* configuration (src/fgpio/boards/nanopi.py).                             *)
(*                                                                         *)
(* The state is the controller object's state: the per-pin 'used' flag,    *)
(* the two mmap windows (_mm, _pwm_mm) and the register words behind them. *)
(* Each public method that writes the usage, a window or a register, and   *)
(* the readers gpio_read and eint_event, is one action.  A method body is  *)
(* a function from a context record to a context record; a raised          *)
(* exception is carried in the field exc and stops every later statement   *)
(* of the method.                                                          *)
(*                                                                         *)
(* Python semantics are those of Python 2 (the language the module is      *)
(* written for): '/' on integers floors, round() rounds half away from     *)
(* zero.  Floating point values are modelled as exact rationals.           *)
(***************************************************************************)
EXTENDS Integers, Sequences, FiniteSets, TLC

VARIABLES used, mm, pwm_mm, mem, pwm_mem, last, callers

vars == <<used, mm, pwm_mm, mem, pwm_mem, last, callers>>

(***************************************************************************)
(* Board configuration: boards/nanopi.py                                   *)
(***************************************************************************)
MEM_LENGTH == 256
GPIO_CON_OFFSET == 0
GPIO_DATA_OFFSET == 4
GPIO_UPD_OFFSET == 8
UPDN_UP == 1
UPDN_DOWN == 0
UPDN_NONE == 2
FUNC_IN == 0
FUNC_OUT == 1
FUNC_EINT == 2
FUNC_PWM == 2
FUNC_RESET == 0
DATA_RESET == 0
UPDN_RESET == 1
EINT_CONT_OFFSET == 136
EINT_PEND_OFFSET == 168
EINT_LOW == 0
EINT_HIGH == 1
EINT_FALL == 2
EINT_RISE == 4
EINT_BOTH == 7
EINT_RESET == 0

\* Config.pins: pin number -> bank, and the capabilities the pin lists.
pins ==
  7  :> [bank |-> "GPF", gpio |-> [num |-> 1]] @@
  11 :> [bank |-> "GPF", gpio |-> [num |-> 2]] @@
  12 :> [bank |-> "GPF", gpio |-> [num |-> 3]] @@
  13 :> [bank |-> "GPF", gpio |-> [num |-> 4], eint |-> [num |-> 4]] @@
  15 :> [bank |-> "GPF", gpio |-> [num |-> 5], eint |-> [num |-> 5]] @@
  16 :> [bank |-> "GPB", gpio |-> [num |-> 2]] @@
  18 :> [bank |-> "GPG", gpio |-> [num |-> 1], eint |-> [num |-> 9]] @@
  22 :> [bank |-> "GPB", gpio |-> [num |-> 0], pwm |-> [num |-> 0]] @@
  24 :> [bank |-> "GPL", gpio |-> [num |-> 13]] @@
  26 :> [bank |-> "GPB", gpio |-> [num |-> 1], pwm |-> [num |-> 1]] @@
  27 :> [bank |-> "GPB", gpio |-> [num |-> 7]] @@
  28 :> [bank |-> "GPB", gpio |-> [num |-> 8]] @@
  29 :> [bank |-> "GPG", gpio |-> [num |-> 3], eint |-> [num |-> 11]] @@
  31 :> [bank |-> "GPG", gpio |-> [num |-> 4], eint |-> [num |-> 12]] @@
  32 :> [bank |-> "GPG", gpio |-> [num |-> 5], eint |-> [num |-> 13]] @@
  33 :> [bank |-> "GPG", gpio |-> [num |-> 6], eint |-> [num |-> 14]] @@
  35 :> [bank |-> "GPG", gpio |-> [num |-> 7], eint |-> [num |-> 15]] @@
  36 :> [bank |-> "GPG", gpio |-> [num |-> 8], eint |-> [num |-> 16]] @@
  37 :> [bank |-> "GPG", gpio |-> [num |-> 9], eint |-> [num |-> 17]] @@
  38 :> [bank |-> "GPG", gpio |-> [num |-> 10], eint |-> [num |-> 18]] @@
  40 :> [bank |-> "GPG", gpio |-> [num |-> 11], eint |-> [num |-> 19]]

\* Config.banks: bank name -> byte offset of the bank's registers.
banks == [GPB |-> 16, GPF |-> 80, GPG |-> 96, GPL |-> 240]

\* 'for pin in self.board.pins': the order a dict is walked in is the
\* interpreter's.  CPython 2 walks the hash table (32 slots, key mod 32);
\* CPython 3.7+ walks in insertion order.
PinOrders ==
  { <<32, 33, 35, 36, 37, 38, 7, 40, 11, 12, 13, 15, 16, 18, 22, 24, 26, 27, 28, 29, 31>>,
    <<7, 11, 12, 13, 15, 16, 18, 22, 24, 26, 27, 28, 29, 31, 32, 33, 35, 36, 37, 38, 40>> }

(***************************************************************************)
(* Board configuration the PWM code reads, the PWM_ attributes of the      *)
(* board object, which boards/nanopi.py as given does not define.          *)
(***************************************************************************)
PWM_LENGTH == 64
PWM_CLK == 50000000
PWM_DIVIDERS == <<1, 2, 4, 8, 16>>
PWM_TCFG0_OFFSET == 0
PWM_TCFG1_OFFSET == 4
PWM_TCON_OFFSET == 8
PWM_BUFFER_OFFSET == 12
PWM_BUFFER_LENGTH == 12
PWM_TCFG_RESET == 0
PWM_TCON_RESET == 0
PWM_BUFF_RESET == 0

(***************************************************************************)
(* GPIO.__init__                                                           *)
(***************************************************************************)
_type_gpio == "gpio"
_type_pwm == "pwm"
_type_eint == "eint"

\* The value False of pins[pin]['used'].
False == "False"
\* The value None of _mm and _pwm_mm; an open window is "mmap".
None == "None"
Mapped == "mmap"

\* MEM_OFFSET (0x56000000) and PWM_OFFSET are page aligned: the offset of
\* the block inside its page is 0.
_mem_base_addr_offset == 0
_pwm_mem_base_addr_offset == 0

(***************************************************************************)
(* Python's integer bit operators on non-negative words.                   *)
(***************************************************************************)
RECURSIVE BitAnd(_, _)
\* a & b
BitAnd(a, b) ==
  IF a = 0 \/ b = 0 THEN 0
  ELSE (a % 2) * (b % 2) + 2 * BitAnd(a \div 2, b \div 2)

RECURSIVE BitOr(_, _)
\* a | b
BitOr(a, b) ==
  IF a = 0 THEN b
  ELSE IF b = 0 THEN a
  ELSE (IF a % 2 = 1 \/ b % 2 = 1 THEN 1 ELSE 0) + 2 * BitOr(a \div 2, b \div 2)

RECURSIVE BitAndNot(_, _)
\* a & ~b
BitAndNot(a, b) ==
  IF a = 0 THEN 0
  ELSE (a % 2) * (1 - (b % 2)) + 2 * BitAndNot(a \div 2, b \div 2)

\* a << n
Shl(a, n) == a * (2 ^ n)

\* a >> n
Shr(a, n) == a \div (2 ^ n)

\* Python truth value of an integer argument.
Truthy(v) == v # 0

\* str.lower() on the strings the model passes in.
Lower(s) ==
  CASE s = "OUT" -> "out"
    [] s = "IN" -> "in"
    [] s = "UP" -> "up"
    [] s = "DOWN" -> "down"
    [] s = "NONE" -> "none"
    [] OTHER -> s

\* Python's == between a str and an int: never equal.
StrEqInt(s, n) == FALSE

(***************************************************************************)
(* Execution context of one method call.                                   *)
(***************************************************************************)
Ok == "ok"

Cur ==
  [used |-> used, mm |-> mm, pwm_mm |-> pwm_mm, mem |-> mem,
   pwm_mem |-> pwm_mem, pos |-> 0, pwm_pos |-> 0, exc |-> Ok]

Raise(st, e) == IF st.exc = Ok THEN [st EXCEPT !.exc = e] ELSE st

_exception(st, msg) == Raise(st, msg)

_value_error(st, msg) == Raise(st, msg)

\* The messages of the exceptions the code raises.
ErrNotValidPin == "ValueError: Not a valid pin number"
ErrBadFunctionType == "Exception: Bad function type"
ErrAlreadyInUse == "Exception: pin already in use"
ErrNotInitialized == "Exception: pin not initialized"
ErrBadGpioFunc == "ValueError: Bad GPIO func"
ErrBadGpioUpdown == "ValueError: Bad GPIO updown"
ErrTrigger == "ValueError: Trigger must be low, high, rising, falling, or both"
ErrPeriodRange == "ValueError: Period out of range"
ErrPeriodConfig == "ValueError: Period configuration could not be determined"
ErrDuty == "ValueError: Duty cycle must be shorter than period"
\* Raised by the interpreter: a method of None, a missing dict key.
ErrAttribute == "AttributeError: NoneType"
ErrKey == "KeyError"

(***************************************************************************)
(* Pin ownership                                                           *)
(***************************************************************************)
\* Variants of the two pin checks: one that forgets the pin is in use, one
\* that looks at the usage before the capability, one that accepts a pin
\* held with any capability.
_pin_available_any_usage(st, pin, ptype) ==
  IF st.exc # Ok THEN st
  ELSE IF pin \notin DOMAIN pins THEN _value_error(st, ErrNotValidPin)
  ELSE IF ptype \notin DOMAIN pins[pin] THEN _exception(st, ErrBadFunctionType)
  ELSE st

_pin_available_usage_first(st, pin, ptype) ==
  IF st.exc # Ok THEN st
  ELSE IF pin \notin DOMAIN pins THEN _value_error(st, ErrNotValidPin)
  ELSE IF st.used[pin] # False THEN _exception(st, ErrAlreadyInUse)
  ELSE IF ptype \notin DOMAIN pins[pin] THEN _exception(st, ErrBadFunctionType)
  ELSE st

_pin_check_any_capability(st, pin, ptype) ==
  IF st.exc # Ok THEN st
  ELSE IF pin \notin DOMAIN pins THEN _value_error(st, ErrNotValidPin)
  ELSE IF st.used[pin] = False THEN _exception(st, ErrNotInitialized)
  ELSE st

_pin_available(st, pin, ptype) ==
  IF st.exc # Ok THEN st
  ELSE IF pin \notin DOMAIN pins THEN _value_error(st, ErrNotValidPin)
  ELSE IF ptype \notin DOMAIN pins[pin] THEN _exception(st, ErrBadFunctionType)
  ELSE IF st.used[pin] # False THEN _exception(st, ErrAlreadyInUse)
  ELSE st

_pin_check(st, pin, ptype) ==
  IF st.exc # Ok THEN st
  ELSE IF pin \notin DOMAIN pins THEN _value_error(st, ErrNotValidPin)
  ELSE IF st.used[pin] = False THEN _exception(st, ErrNotInitialized)
  ELSE IF st.used[pin] # ptype THEN _exception(st, ErrAlreadyInUse)
  ELSE st

\* self.board.pins[pin][ptype]['num']: KeyError when the pin does not list ptype.
HasNum(pin, ptype) == ptype \in DOMAIN pins[pin]

(***************************************************************************)
(* The GPIO register window                                                *)
(***************************************************************************)
MemAddrs == {a \in 0..(MEM_LENGTH - 4) : a % 4 = 0}

_mem_open(st) == IF st.exc # Ok THEN st ELSE [st EXCEPT !.mm = Mapped]

\* self._mm.seek(...): _mm is None when the window is closed.
MmSeek(st, addr) ==
  IF st.exc # Ok THEN st
  ELSE IF st.mm = None THEN Raise(st, ErrAttribute)
  ELSE [st EXCEPT !.pos = addr]

\* The value _mem_read returns; the position is put back on the word read.
_mem_read(st) == st.mem[st.pos]

\* What the hardware keeps of a 32-bit store.  The interrupt pending register
\* is write-one-to-clear: each 1 written clears that line's pending bit and
\* a 0 leaves it.  Every other word is plain memory.
HwStore(addr, old, data) ==
  IF addr = EINT_PEND_OFFSET THEN BitAndNot(old, data) ELSE data

_mem_write(st, data) ==
  IF st.exc # Ok THEN st
  ELSE [st EXCEPT !.mem[st.pos] = HwStore(st.pos, st.mem[st.pos], data),
                  !.pos = st.pos + 4]

\* A variant of _mem_close that unmaps the window whatever pins are in use.
_mem_close_unconditional(st) ==
  IF st.exc # Ok THEN st
  ELSE IF st.mm = None THEN Raise(st, ErrAttribute)
  ELSE [st EXCEPT !.mm = None]

\* A variant of _mem_close that keeps the window only while a pin is held as
\* gpio.
_mem_close_gpio_only(st) ==
  IF st.exc # Ok THEN st
  ELSE IF \E pin \in DOMAIN pins : st.used[pin] = _type_gpio THEN st
  ELSE IF st.mm = None THEN Raise(st, ErrAttribute)
  ELSE [st EXCEPT !.mm = None]

_mem_close(st) ==
  IF st.exc # Ok THEN st
  ELSE IF \E pin \in DOMAIN pins : st.used[pin] # False THEN st
  ELSE IF st.mm = None THEN Raise(st, ErrAttribute)
  ELSE [st EXCEPT !.mm = None]

_gpio_mem_seek_addr(st, pin, offset_bank) ==
  IF st.exc # Ok THEN st
  ELSE MmSeek(st, _mem_base_addr_offset + banks[pins[pin].bank] + offset_bank)

\* A variant of _gpio_mem_write that stores the bit without the word read.
_gpio_mem_write_whole_word(st, pin, value) ==
  IF st.exc # Ok THEN st
  ELSE _mem_write(st, Shl(BitAnd(value, 1), pins[pin].gpio.num))

_gpio_mem_write(st, pin, value) ==
  IF st.exc # Ok THEN st
  ELSE LET pin_num == pins[pin].gpio.num
           data == _mem_read(st)
       IN _mem_write(st, BitOr(BitAndNot(data, Shl(1, pin_num)),
                               Shl(BitAnd(value, 1), pin_num)))

_gpio_mem_write2(st, pin, value) ==
  IF st.exc # Ok THEN st
  ELSE LET pin_num == pins[pin].gpio.num
           data == _mem_read(st)
       IN _mem_write(st, BitOr(BitAndNot(data, Shl(3, pin_num * 2)),
                               Shl(BitAnd(value, 3), pin_num * 2)))

(***************************************************************************)
(* GPIO                                                                    *)
(***************************************************************************)
\* The value _gpio_read returns (the window is open and sought).
_gpio_read(st, pin) ==
  LET s1 == _gpio_mem_seek_addr(st, pin, GPIO_DATA_OFFSET)
  IN BitAnd(1, Shr(_mem_read(s1), pins[pin].gpio.num))

_gpio_write(st, pin, value) ==
  LET v == IF Truthy(value) THEN 1 ELSE 0
  IN _gpio_mem_write(_gpio_mem_seek_addr(st, pin, GPIO_DATA_OFFSET), pin, v)

_gpio_function(st, pin, func) ==
  _gpio_mem_write2(_gpio_mem_seek_addr(st, pin, GPIO_CON_OFFSET), pin, func)

_gpio_direction(st, pin, direction) ==
  LET d == Lower(direction)
  IN IF st.exc # Ok THEN st
     ELSE IF d = "out" THEN _gpio_function(st, pin, FUNC_OUT)
     ELSE IF d = "in" THEN _gpio_function(st, pin, FUNC_IN)
     ELSE _value_error(st, ErrBadGpioFunc)

_gpio_updn(st, pin, updn) ==
  _gpio_mem_write2(_gpio_mem_seek_addr(st, pin, GPIO_UPD_OFFSET), pin, updn)

_gpio_updown(st, pin, updown) ==
  LET u == Lower(updown)
  IN IF st.exc # Ok THEN st
     ELSE IF u = "up" THEN _gpio_updn(st, pin, UPDN_UP)
     ELSE IF u = "down" THEN _gpio_updn(st, pin, UPDN_DOWN)
     ELSE IF u = "none" THEN _gpio_updn(st, pin, UPDN_NONE)
     ELSE _value_error(st, ErrBadGpioUpdown)

SetUsed(st, pin, v) ==
  IF st.exc # Ok THEN st ELSE [st EXCEPT !.used[pin] = v]

\* A variant of _gpio_close that leaves the pull field as it is.
_gpio_close_keep_pull(st, pin) ==
  IF st.exc # Ok THEN st
  ELSE IF st.used[pin] \in {_type_gpio, _type_eint}
       THEN SetUsed(_gpio_function(_gpio_write(st, pin, DATA_RESET), pin, FUNC_RESET),
                    pin, False)
  ELSE st

_gpio_close(st, pin) ==
  IF st.exc # Ok THEN st
  ELSE IF st.used[pin] \in {_type_gpio, _type_eint}
       THEN SetUsed(_gpio_updn(_gpio_function(_gpio_write(st, pin, DATA_RESET),
                                              pin, FUNC_RESET),
                               pin, UPDN_RESET),
                    pin, False)
  ELSE st

\* 'if self._mm == None: self._mem_open()'
OpenMem(st) ==
  IF st.exc # Ok THEN st
  ELSE IF st.mm = None THEN _mem_open(st) ELSE st

gpio_init(st, pin, direction, updown) ==
  LET s1 == OpenMem(_pin_available(st, pin, _type_gpio))
      s2 == _gpio_direction(s1, pin, direction)
      s3 == IF StrEqInt(Lower(direction), FUNC_OUT)
            THEN _gpio_updown(s2, pin, "none")
            ELSE _gpio_updown(s2, pin, updown)
  IN SetUsed(s3, pin, _type_gpio)

gpio_close(st, pin) ==
  _mem_close(_gpio_close(_pin_check(st, pin, _type_gpio), pin))

RECURSIVE GpioCloseFrom(_, _, _)
\* The loop of gpio_close_all from the i-th pin of the order on; an exception
\* ends it.
GpioCloseFrom(st, order, i) ==
  IF i > Len(order) THEN st
  ELSE LET s1 == _gpio_close(st, order[i])
       IN IF s1.exc # Ok THEN s1 ELSE GpioCloseFrom(s1, order, i + 1)

gpio_close_all(st, order) == _mem_close(GpioCloseFrom(st, order, 1))

gpio_write(st, pin, value) ==
  _gpio_write(_pin_check(st, pin, _type_gpio), pin, value)

gpio_direction(st, pin, direction) ==
  _gpio_direction(_pin_check(st, pin, _type_gpio), pin, direction)

gpio_updown(st, pin, updown) ==
  _gpio_updown(_pin_check(st, pin, _type_gpio), pin, updown)

\* The value gpio_read returns once the pin check has passed.
gpio_read_value(st, pin) == _gpio_read(st, pin)

(***************************************************************************)
(* External interrupts                                                     *)
(***************************************************************************)
ErrTriggerList == "ValueError: Trigger must be low, high, rising, falling, none, or both"

_eint_mem_seek_addr(st, offset) == MmSeek(st, _mem_base_addr_offset + offset)

\* The trigger field of interrupt line pin_num: word address and bit offset.
EintContAddr(pin_num) == EINT_CONT_OFFSET + ((pin_num * 4) \div 32) * 4

EintContShift(pin_num) == (pin_num * 4) % 32

\* A variant of _eint_control that packs the trigger fields 3 bits apart.
_eint_control_packed(st, pin, value) ==
  IF st.exc # Ok THEN st
  ELSE IF ~HasNum(pin, _type_eint) THEN Raise(st, ErrKey)
  ELSE LET pin_num == pins[pin].eint.num
           s1 == _eint_mem_seek_addr(st, EINT_CONT_OFFSET + ((pin_num * 3) \div 32) * 4)
           data == _mem_read(s1)
           pin_offset == (pin_num * 3) % 32
       IN _mem_write(s1, BitOr(BitAndNot(data, Shl(7, pin_offset)),
                               Shl(BitAnd(value, 7), pin_offset)))

_eint_control(st, pin, value) ==
  IF st.exc # Ok THEN st
  ELSE IF ~HasNum(pin, _type_eint) THEN Raise(st, ErrKey)
  ELSE LET pin_num == pins[pin].eint.num
           s1 == _eint_mem_seek_addr(st, EintContAddr(pin_num))
           data == _mem_read(s1)
           pin_offset == EintContShift(pin_num)
       IN _mem_write(s1, BitOr(BitAndNot(data, Shl(7, pin_offset)),
                               Shl(BitAnd(value, 7), pin_offset)))

_eint_trigger(st, pin, trigger) ==
  IF st.exc # Ok THEN st
  ELSE IF trigger = "low" THEN _eint_control(st, pin, EINT_LOW)
  ELSE IF trigger = "high" THEN _eint_control(st, pin, EINT_HIGH)
  ELSE IF trigger = "rising" THEN _eint_control(st, pin, EINT_RISE)
  ELSE IF trigger = "falling" THEN _eint_control(st, pin, EINT_FALL)
  ELSE IF trigger = "both" THEN _eint_control(st, pin, EINT_BOTH)
  ELSE _value_error(st, ErrTrigger)

\* trig_num of _eint_trigger for the triggers it accepts.
TrigCode(trigger) ==
  CASE trigger = "low" -> EINT_LOW
    [] trigger = "high" -> EINT_HIGH
    [] trigger = "rising" -> EINT_RISE
    [] trigger = "falling" -> EINT_FALL
    [] trigger = "both" -> EINT_BOTH

\* The value _eint_get_event returns.
_eint_get_event(st, pin) ==
  LET s1 == _eint_mem_seek_addr(st, EINT_PEND_OFFSET)
  IN BitAnd(1, Shr(_mem_read(s1), pins[pin].eint.num))

\* A variant of _eint_clear_event that stores 0 in the line's bit.
_eint_clear_event_store_zero(st, pin) ==
  IF st.exc # Ok THEN st
  ELSE LET s1 == _eint_mem_seek_addr(st, EINT_PEND_OFFSET)
           data == _mem_read(s1)
           pin_num == pins[pin].eint.num
       IN _mem_write(s1, BitAndNot(data, Shl(1, pin_num)))

_eint_clear_event(st, pin) ==
  IF st.exc # Ok THEN st
  ELSE LET s1 == _eint_mem_seek_addr(st, EINT_PEND_OFFSET)
           data == _mem_read(s1)
           pin_num == pins[pin].eint.num
       IN _mem_write(s1, BitOr(BitAndNot(data, Shl(1, pin_num)), Shl(1, pin_num)))

_eint_close(st, pin) == _gpio_close(_eint_control(st, pin, EINT_RESET), pin)

eint_init(st, pin, trigger) ==
  LET s1 == OpenMem(_pin_available(st, pin, _type_eint))
      s2 == _gpio_function(s1, pin, FUNC_EINT)
      s3 == IF trigger \notin {"low", "high", "rising", "falling", "none", "both"}
            THEN _value_error(s2, ErrTriggerList)
            ELSE s2
  IN SetUsed(_eint_clear_event(_eint_trigger(s3, pin, trigger), pin), pin, _type_eint)

eint_close(st, pin) ==
  _mem_close(_eint_close(_pin_check(st, pin, _type_eint), pin))

RECURSIVE EintCloseFrom(_, _, _)
\* The loop of eint_close_all from the i-th pin of the order on; an exception
\* ends it.
EintCloseFrom(st, order, i) ==
  IF i > Len(order) THEN st
  ELSE LET s1 == _eint_close(st, order[i])
       IN IF s1.exc # Ok THEN s1 ELSE EintCloseFrom(s1, order, i + 1)

eint_close_all(st, order) == _mem_close(EintCloseFrom(st, order, 1))

eint_clear(st, pin) ==
  _eint_clear_event(_pin_check(st, pin, _type_eint), pin)

\* The interrupt controller latches a trigger on line pin_num: its pending
\* bit reads 1 until cleared.
HwLatch(m, pin_num) ==
  [m EXCEPT ![EINT_PEND_OFFSET] = BitOr(m[EINT_PEND_OFFSET], Shl(1, pin_num))]

(***************************************************************************)
(* The PWM register window                                                 *)
(***************************************************************************)
PwmAddrs == {a \in 0..(PWM_LENGTH - 4) : a % 4 = 0}

_pwm_mem_open(st) == IF st.exc # Ok THEN st ELSE [st EXCEPT !.pwm_mm = Mapped]

_pwm_mem_seek_addr(st, offset) ==
  IF st.exc # Ok THEN st
  ELSE IF st.pwm_mm = None THEN Raise(st, ErrAttribute)
  ELSE [st EXCEPT !.pwm_pos = _pwm_mem_base_addr_offset + offset]

_pwm_mem_read(st) == st.pwm_mem[st.pwm_pos]

_pwm_mem_write(st, data) ==
  IF st.exc # Ok THEN st
  ELSE [st EXCEPT !.pwm_mem[st.pwm_pos] = data, !.pwm_pos = st.pwm_pos + 4]

\* 0xFFFF, 0xFF, 0x0F
MASK16 == 65535
MASK8 == 255
MASK4 == 15

PwmBufferAddr(pin_num) == PWM_BUFFER_OFFSET + (pin_num * PWM_BUFFER_LENGTH)

_pwm_counter(st, pin, counter) ==
  IF st.exc # Ok THEN st
  ELSE IF ~HasNum(pin, _type_pwm) THEN Raise(st, ErrKey)
  ELSE LET s1 == _pwm_mem_seek_addr(st, PwmBufferAddr(pins[pin].pwm.num))
           data == _pwm_mem_read(s1)
       IN _pwm_mem_write(s1, BitOr(BitAndNot(data, MASK16), BitAnd(counter, MASK16)))

_pwm_get_counter(st, pin) ==
  BitAnd(MASK16, st.pwm_mem[PwmBufferAddr(pins[pin].pwm.num)])

_pwm_compare(st, pin, compare) ==
  IF st.exc # Ok THEN st
  ELSE IF ~HasNum(pin, _type_pwm) THEN Raise(st, ErrKey)
  ELSE LET s1 == _pwm_mem_seek_addr(st, PwmBufferAddr(pins[pin].pwm.num) + 4)
           data == _pwm_mem_read(s1)
       IN _pwm_mem_write(s1, BitOr(BitAndNot(data, MASK16), BitAnd(compare, MASK16)))

_pwm_get_compare(st, pin) ==
  BitAnd(MASK16, st.pwm_mem[PwmBufferAddr(pins[pin].pwm.num) + 4])

_pwm_prescaler(st, pin, value) ==
  IF st.exc # Ok THEN st
  ELSE IF ~HasNum(pin, _type_pwm) THEN Raise(st, ErrKey)
  ELSE LET s1 == _pwm_mem_seek_addr(st, PWM_TCFG0_OFFSET)
           data == _pwm_mem_read(s1)
       IN _pwm_mem_write(s1, BitOr(BitAndNot(data, MASK8), BitAnd(value, MASK8)))

_pwm_get_prescaler(st, pin) == BitAnd(MASK8, st.pwm_mem[PWM_TCFG0_OFFSET])

\* A variant of _pwm_divider that stores the shifted value without reading
\* the register first.
_pwm_divider_blind(st, pin, value) ==
  IF st.exc # Ok THEN st
  ELSE IF ~HasNum(pin, _type_pwm) THEN Raise(st, ErrKey)
  ELSE _pwm_mem_write(_pwm_mem_seek_addr(st, PWM_TCFG1_OFFSET),
                      Shl(BitAnd(value, MASK4), pins[pin].pwm.num * 4))

_pwm_divider(st, pin, value) ==
  IF st.exc # Ok THEN st
  ELSE IF ~HasNum(pin, _type_pwm) THEN Raise(st, ErrKey)
  ELSE LET pin_num == pins[pin].pwm.num
           s1 == _pwm_mem_seek_addr(st, PWM_TCFG1_OFFSET)
           data == _pwm_mem_read(s1)
       IN _pwm_mem_write(s1, BitOr(BitAndNot(data, Shl(MASK4, pin_num * 4)),
                                   Shl(BitAnd(value, MASK4), pin_num * 4)))

_pwm_get_divider(st, pin) ==
  BitAnd(MASK4, Shr(st.pwm_mem[PWM_TCFG1_OFFSET], pins[pin].pwm.num * 4))

_pwm_tcon(st, pin, value) ==
  IF st.exc # Ok THEN st
  ELSE IF ~HasNum(pin, _type_pwm) THEN Raise(st, ErrKey)
  ELSE LET pin_num == pins[pin].pwm.num
           s1 == _pwm_mem_seek_addr(st, PWM_TCON_OFFSET)
           data == _pwm_mem_read(s1)
       IN _pwm_mem_write(s1, BitOr(BitAndNot(data, Shl(MASK4, pin_num * 8)),
                                   Shl(BitAnd(value, MASK4), pin_num * 8)))

\* The channel's TCON field.
PwmTconField(m, pin) == BitAnd(MASK4, Shr(m[PWM_TCON_OFFSET], pins[pin].pwm.num * 8))

\* A variant of PwmEnableWrites that starts the timer first.
PwmEnableWrites_run_first(st, pin) ==
  LET first == _pwm_tcon(st, pin, 9)
  IN <<first, _pwm_tcon(first, pin, 10)>>

\* The controller after each write of _pwm_enable, in order.
PwmEnableWrites(st, pin) ==
  LET first == _pwm_tcon(st, pin, 10)
  IN <<first, _pwm_tcon(first, pin, 9)>>

_pwm_enable(st, pin) ==
  LET writes == PwmEnableWrites(st, pin) IN writes[Len(writes)]

_pwm_disable(st, pin) == _pwm_tcon(st, pin, 0)

(***************************************************************************)
(* PWM period and duty cycle.  The code computes in floating point; the    *)
(* model computes the same quantities as exact rationals.  Where the exact *)
(* quantities of a comparison are equal, or an exact quotient lies half    *)
(* way between two integers, the rounding of the floating point evaluation *)
(* decides, and the model allows both outcomes.  The periods and duty      *)
(* cycles the specifications draw are small enough for the floating point  *)
(* error to stay below the distance between unequal exact quantities.      *)
(***************************************************************************)
NS_PER_S == 1000000000
MAX_COUNT == 65535
MAX_PRESCALE == 255
\* best['counter'] is None
NoCounter == -1

RECURSIVE FracLess(_, _)
\* A rational num/den (num >= 0, den > 0) is less than another.  The integer
\* parts are compared first and then, inverted, the fractional parts, so
\* that no product is formed that could leave the integer range.
FracLess(a, b) ==
  LET ai == a.num \div a.den
      bi == b.num \div b.den
      ar == a.num % a.den
      br == b.num % b.den
  IN IF ai # bi THEN ai < bi
     ELSE IF br = 0 THEN FALSE
     ELSE IF ar = 0 THEN TRUE
     ELSE FracLess([num |-> b.den, den |-> br], [num |-> a.den, den |-> ar])

\* clk_ns_min of a (prescaler, divider index) pair: the length of one tick in
\* ns, 1e9 / (PWM_CLK / (pre_cnt + 1) / divider).  PWM_CLK divides 1e9.
TickNs(pre_cnt, div_idx) ==
  (NS_PER_S \div PWM_CLK) * (pre_cnt + 1) * PWM_DIVIDERS[div_idx + 1]

\* period_ns <= clk_ns_max, with clk_ns_max = 65535 ticks.
FitsMax(period_ns, tick) ==
  \/ period_ns \div tick < MAX_COUNT
  \/ period_ns \div tick = MAX_COUNT /\ period_ns % tick = 0

\* int(round(n / d)) for the exact quotient: halves round away from zero.
RoundDiv(n, d) == (n \div d) + (IF 2 * (n % d) >= d THEN 1 ELSE 0)

\* int(round(n / d)) on floats: the computed quotient of an exact half can
\* fall on either side of it.
FloatRound(n, d) ==
  IF 2 * (n % d) = d THEN {n \div d, (n \div d) + 1} ELSE {RoundDiv(n, d)}

AbsDiff(a, b) == IF a < b THEN b - a ELSE a - b

\* 'diff < best[diff]' on floats, the denominators being the ticks the two
\* errors were computed with.  Rounding in the floating point evaluation
\* decides the comparison of two errors that are equal as rationals: both
\* answers are possible then, unless the ticks are equal too.  The dividers
\* being powers of two, two pairs with the same tick go through the same
\* float values, and their errors are equal as floats.
FloatLess(a, b) ==
  IF FracLess(a, b) THEN {TRUE}
  ELSE IF FracLess(b, a) THEN {FALSE}
  ELSE IF a.den = b.den THEN {FALSE}
  ELSE {TRUE, FALSE}

\* A variant of FloatFits in which the float bounds of every pair, the two of
\* the range check included, can fall on either side of an equal period.
FloatFits_every_bound(period_ns, div_idx, pre_cnt) ==
  LET tick == TickNs(pre_cnt, div_idx)
  IN IF ~(FitsMax(period_ns, tick) /\ period_ns >= tick) THEN {FALSE}
     ELSE IF period_ns = tick \/ period_ns = MAX_COUNT * tick THEN {TRUE, FALSE}
     ELSE {TRUE}

\* A variant of FloatFits without the test 'period_ns >= clk_ns_min'.
FloatFits_no_lower_bound(period_ns, div_idx, pre_cnt) ==
  IF FitsMax(period_ns, TickNs(pre_cnt, div_idx)) THEN {TRUE} ELSE {FALSE}

\* 'period_ns <= clk_ns_max and period_ns >= clk_ns_min' on floats, for the
\* pair (pre_cnt, div_idx).  A period of exactly one tick or exactly 65535
\* ticks can fall on either side of the computed bound, except for the two
\* bounds the range check at the head of _pwm_period has already compared
\* the period with: the loop computes those with the same expressions.
FloatFits(period_ns, div_idx, pre_cnt) ==
  LET tick == TickNs(pre_cnt, div_idx)
      at_min == period_ns = tick /\ ~(pre_cnt = 0 /\ div_idx = 0)
      at_max == /\ period_ns \div tick = MAX_COUNT /\ period_ns % tick = 0
                /\ ~(pre_cnt = MAX_PRESCALE /\ div_idx = Len(PWM_DIVIDERS) - 1)
  IN IF ~(FitsMax(period_ns, tick) /\ period_ns >= tick) THEN {FALSE}
     ELSE IF at_min \/ at_max THEN {TRUE, FALSE}
     ELSE {TRUE}

\* One pass through the body of the while loop of _pwm_period: the candidate
\* (pre_cnt, div_idx) replaces best when it can hold the period and its
\* rounding error is smaller.  The result is the set of values best can have
\* after the pass.
PeriodStep(period_ns, div_idx, pre_cnt, best) ==
  LET tick == TickNs(pre_cnt, div_idx)
      cand(counter) ==
        [diff |-> [num |-> AbsDiff(counter * tick, period_ns), den |-> tick],
         counter |-> counter, prescaler |-> pre_cnt, divider |-> div_idx]
  IN UNION {IF fits
            THEN UNION {{IF less THEN cand(counter) ELSE best :
                           less \in FloatLess(cand(counter).diff, best.diff)} :
                        counter \in FloatRound(period_ns, tick)}
            ELSE {best} : fits \in FloatFits(period_ns, div_idx, pre_cnt)}

\* The loop variables in pass k (from 0) of the while loop: pre_cnt counts
\* down from 255 to 0, then restarts at 255 with the next smaller div_idx.
LoopDivIdx(k) == (Len(PWM_DIVIDERS) - 1) - (k \div (MAX_PRESCALE + 1))

LoopPreCnt(k) == MAX_PRESCALE - (k % (MAX_PRESCALE + 1))

LoopPasses == Len(PWM_DIVIDERS) * (MAX_PRESCALE + 1)

RECURSIVE PeriodSearch(_, _, _, _)
\* Passes lo .. hi-1 of the while loop, in order, starting from any value of
\* bests: the set of values best can have after them.  (The cardinality test
\* only makes the first half be computed before the second.)
PeriodSearch(period_ns, lo, hi, bests) ==
  IF hi <= lo THEN bests
  ELSE IF hi = lo + 1
       THEN UNION {PeriodStep(period_ns, LoopDivIdx(lo), LoopPreCnt(lo), b) : b \in bests}
  ELSE LET mid == (lo + hi) \div 2
           first == PeriodSearch(period_ns, lo, mid, bests)
       IN IF Cardinality(first) > 0
          THEN PeriodSearch(period_ns, mid, hi, first)
          ELSE {}

\* best before the loop.
PeriodBestInit ==
  [diff |-> [num |-> MAX_COUNT, den |-> 1], counter |-> NoCounter,
   prescaler |-> NoCounter, divider |-> NoCounter]

\* The values best can have when the loop ends.
PeriodBests(period_ns) == PeriodSearch(period_ns, 0, LoopPasses, {PeriodBestInit})

\* The range check at the head of _pwm_period.
PeriodInRange(period_ns) ==
  /\ FitsMax(period_ns, TickNs(MAX_PRESCALE, Len(PWM_DIVIDERS) - 1))
  /\ ~((NS_PER_S \div PWM_CLK) * PWM_DIVIDERS[1] > period_ns)

\* _pwm_period with the value best has when the search loop ends.
_pwm_period(st, pin, period_ns, best) ==
  IF st.exc # Ok THEN st
  ELSE IF ~PeriodInRange(period_ns) THEN _value_error(st, ErrPeriodRange)
  ELSE IF best.counter = NoCounter THEN _value_error(st, ErrPeriodConfig)
  ELSE _pwm_divider(_pwm_prescaler(_pwm_counter(st, pin, best.counter),
                                   pin, best.prescaler),
                    pin, best.divider)

\* The value _pwm_period returns: counter ticks minus the period asked for.
PeriodError(period_ns, best) ==
  best.counter * TickNs(best.prescaler, best.divider) - period_ns

RECURSIVE MulDivMod(_, _, _)
\* Quotient and remainder of a * b by c, without forming the product.
MulDivMod(a, b, c) ==
  IF a = 0 THEN [q |-> 0, r |-> 0]
  ELSE LET h == MulDivMod(a \div 2, b, c)
           t == 2 * h.r + (a % 2) * b
       IN [q |-> 2 * h.q + (t \div c), r |-> t % c]

\* _pwm_freq_seconds returns 1 / round(PWM_CLK / (prescaler + 1) / divider),
\* the divisions being integer divisions: this is the rounded number of
\* ticks per second, of which the code returns the inverse.
TicksPerSecond(st, pin) ==
  LET prescaler == _pwm_get_prescaler(st, pin)
      idx == _pwm_get_divider(st, pin)
      divider == IF idx < Len(PWM_DIVIDERS) THEN PWM_DIVIDERS[idx + 1] ELSE idx
  IN (PWM_CLK \div (prescaler + 1)) \div divider

\* compare = int(round(duty_cycle_ns / freq_ns)), freq_ns = 1e9 / ticks per
\* second; up tells which way the float quotient of an exact half falls.
DutyCompare(st, pin, duty_cycle_ns, up) ==
  LET m == MulDivMod(duty_cycle_ns, TicksPerSecond(st, pin), NS_PER_S)
  IN IF 2 * m.r = NS_PER_S THEN m.q + (IF up THEN 1 ELSE 0)
     ELSE m.q + (IF 2 * m.r > NS_PER_S THEN 1 ELSE 0)

\* period_ns < duty_cycle_ns, period_ns = counter * freq_s * 1e9; up tells
\* which way the float period falls when it equals the duty cycle exactly.
DutyTooLong(st, pin, duty_cycle_ns, up) ==
  LET m == MulDivMod(_pwm_get_counter(st, pin), NS_PER_S, TicksPerSecond(st, pin))
  IN IF duty_cycle_ns = m.q /\ m.r = 0 THEN ~up ELSE duty_cycle_ns > m.q

_pwm_duty_cycle(st, pin, duty_cycle_ns, up) ==
  IF st.exc # Ok THEN st
  ELSE IF st.pwm_mm = None THEN Raise(st, ErrAttribute)
  ELSE IF DutyTooLong(st, pin, duty_cycle_ns, up) THEN _value_error(st, ErrDuty)
  ELSE _pwm_compare(st, pin, DutyCompare(st, pin, duty_cycle_ns, up))

\* 'self._pwm_mm.close(); self._pwm_mm = None'
PwmMmClose(st) ==
  IF st.exc # Ok THEN st
  ELSE IF st.pwm_mm = None THEN Raise(st, ErrAttribute)
  ELSE [st EXCEPT !.pwm_mm = None]

\* A variant of _pwm_close that marks the pin free as its last step, after
\* the windows are closed.
_pwm_close_release_last(st, pin, order) ==
  IF st.exc # Ok THEN st
  ELSE IF st.used[pin] \in {_type_pwm}
       THEN LET s1 == _pwm_disable(st, pin)
                s2 == _pwm_divider(s1, pin, PWM_TCFG_RESET)
                s3 == _pwm_tcon(s2, pin, PWM_TCON_RESET)
                s4 == _pwm_compare(s3, pin, PWM_BUFF_RESET)
                s5 == _pwm_counter(s4, pin, PWM_BUFF_RESET)
                s6 == _gpio_function(s5, pin, FUNC_RESET)
                loop_pin == order[Len(order)]
                s7 == IF \E i \in 1..Len(order) :
                           order[i] # pin /\ s6.used[order[i]] = _type_pwm
                      THEN s6
                      ELSE PwmMmClose(_pwm_prescaler(_mem_close(s6), loop_pin,
                                                     PWM_TCFG_RESET))
            IN SetUsed(s7, pin, False)
  ELSE st

\* order is the order 'for pin in self.board.pins' walks the pins in.  When
\* that loop ends without break, its variable pin (which replaced the
\* argument) is left at the last pin walked.
_pwm_close(st, pin, order) ==
  IF st.exc # Ok THEN st
  ELSE IF st.used[pin] \in {_type_pwm}
       THEN LET s1 == _pwm_disable(st, pin)
                s2 == _pwm_divider(s1, pin, PWM_TCFG_RESET)
                s3 == _pwm_tcon(s2, pin, PWM_TCON_RESET)
                s4 == _pwm_compare(s3, pin, PWM_BUFF_RESET)
                s5 == _pwm_counter(s4, pin, PWM_BUFF_RESET)
                s6 == _gpio_function(s5, pin, FUNC_RESET)
                s7 == SetUsed(s6, pin, False)
                loop_pin == order[Len(order)]
            IN IF s7.exc # Ok THEN s7
               ELSE IF \E i \in 1..Len(order) : s7.used[order[i]] = _type_pwm THEN s7
               ELSE PwmMmClose(_pwm_prescaler(_mem_close(s7), loop_pin, PWM_TCFG_RESET))
  ELSE st

\* 'if self._pwm_mm == None: self._pwm_mem_open()'
OpenPwmMem(st) ==
  IF st.exc # Ok THEN st
  ELSE IF st.pwm_mm = None THEN _pwm_mem_open(st) ELSE st

pwm_init(st, pin, period, duty_cycle, best, up) ==
  LET s1 == OpenPwmMem(OpenMem(_pin_available(st, pin, _type_pwm)))
      s2 == _gpio_function(s1, pin, FUNC_PWM)
      s3 == _pwm_period(s2, pin, period, best)
  IN SetUsed(_pwm_duty_cycle(s3, pin, duty_cycle, up), pin, _type_pwm)

pwm_close(st, pin, order) ==
  _pwm_close(_pin_check(st, pin, _type_pwm), pin, order)

RECURSIVE PwmCloseFrom(_, _, _)
\* The loop of pwm_close_all from the i-th pin of the order on; an exception
\* ends it.
PwmCloseFrom(st, order, i) ==
  IF i > Len(order) THEN st
  ELSE LET s1 == _pwm_close(st, order[i], order)
       IN IF s1.exc # Ok THEN s1 ELSE PwmCloseFrom(s1, order, i + 1)

pwm_close_all(st, order) == PwmCloseFrom(st, order, 1)

pwm_period(st, pin, period, best) ==
  _pwm_period(_pin_check(st, pin, _type_pwm), pin, period, best)

pwm_duty_cycle(st, pin, duty_cycle, up) ==
  _pwm_duty_cycle(_pin_check(st, pin, _type_pwm), pin, duty_cycle, up)

pwm_start(st, pin) == _pwm_enable(_pin_check(st, pin, _type_pwm), pin)

pwm_stop(st, pin) == _pwm_disable(_pin_check(st, pin, _type_pwm), pin)

\* pwm_counter and pwm_compare reach the registers without a pin check:
\* self.board.pins[pin] is a KeyError for a pin the board does not have.
pwm_counter(st, pin, value) ==
  IF pin \notin DOMAIN pins THEN Raise(st, ErrKey) ELSE _pwm_counter(st, pin, value)

pwm_compare(st, pin, value) ==
  IF pin \notin DOMAIN pins THEN Raise(st, ErrKey) ELSE _pwm_compare(st, pin, value)

(***************************************************************************)
(* The register fields of a pin, read from the register words.             *)
(***************************************************************************)
BankAddr(pin, offset_bank) == _mem_base_addr_offset + banks[pins[pin].bank] + offset_bank

\* The 2-bit function-select field of the pin in its bank's control register.
ConField(m, pin) == BitAnd(3, Shr(m[BankAddr(pin, GPIO_CON_OFFSET)], pins[pin].gpio.num * 2))

\* The 2-bit pull field of the pin in its bank's pull register.
PullField(m, pin) == BitAnd(3, Shr(m[BankAddr(pin, GPIO_UPD_OFFSET)], pins[pin].gpio.num * 2))

\* The data bit of the pin in its bank's data register.
DataBit(m, pin) == BitAnd(1, Shr(m[BankAddr(pin, GPIO_DATA_OFFSET)], pins[pin].gpio.num))

\* The pending bit of the pin's interrupt line.
PendBit(m, pin) == BitAnd(1, Shr(m[EINT_PEND_OFFSET], pins[pin].eint.num))

\* The 3-bit trigger field of the pin's interrupt line.
TrigField(m, pin) ==
  BitAnd(7, Shr(m[EintContAddr(pins[pin].eint.num)], EintContShift(pins[pin].eint.num)))

\* The prescaler field, and the channel's divider, counter and compare fields.
PrescalerField(m) == BitAnd(MASK8, m[PWM_TCFG0_OFFSET])

DividerField(m, pin) == BitAnd(MASK4, Shr(m[PWM_TCFG1_OFFSET], pins[pin].pwm.num * 4))

CounterField(m, pin) == BitAnd(MASK16, m[PwmBufferAddr(pins[pin].pwm.num)])

CompareField(m, pin) == BitAnd(MASK16, m[PwmBufferAddr(pins[pin].pwm.num) + 4])

(***************************************************************************)
(* The calls made on the controller                                        *)
(***************************************************************************)
\* The arguments the calls are made with: pins for every call but eint_init,
\* which takes its pin from eint_pins, as the trigger on an interrupt line
\* does.  Pin 1 is not a pin of the board; 7 lists gpio only, 13 and 15 list
\* gpio and eint, and the three share bank GPF; 22 and 26 list gpio and pwm
\* and share bank GPB.  "inout" is not a direction, so that gpio_init fails
\* where it is the only direction drawn.  Periods and duty cycles are in ns.
ArgsOwn ==
  [pins |-> {1, 13, 22}, eint_pins |-> {1, 13, 22}, directions |-> {"OUT"},
   updowns |-> {"up"}, values |-> {1}, triggers |-> {"rising"},
   periods |-> {70}, duties |-> {40}]

ArgsGpio ==
  [pins |-> {7, 13}, eint_pins |-> {13}, directions |-> {"out"},
   updowns |-> {"none", "up", "down"}, values |-> {0, 2},
   triggers |-> {"rising"}, periods |-> {70}, duties |-> {40}]

ArgsEint ==
  [pins |-> {13, 15}, eint_pins |-> {13, 15}, directions |-> {"in"},
   updowns |-> {"none"},
   values |-> {1}, triggers |-> {"rising", "none"},
   periods |-> {70}, duties |-> {40}]

ArgsPwm ==
  [pins |-> {22, 26}, eint_pins |-> {13}, directions |-> {"inout"},
   updowns |-> {"none"},
   values |-> {1}, triggers |-> {"rising"}, periods |-> {70},
   duties |-> {40}]

\* 18 and 37 list gpio and eint, on interrupt lines 9 and 17.
ArgsTrig ==
  [pins |-> {18}, eint_pins |-> {18, 37}, directions |-> {"in"},
   updowns |-> {"none"}, values |-> {1},
   triggers |-> {"low", "high", "rising", "falling", "both"},
   periods |-> {70}, duties |-> {40}]

ArgsSolve ==
  [pins |-> {22}, eint_pins |-> {13}, directions |-> {"inout"},
   updowns |-> {"none"}, values |-> {1}, triggers |-> {"rising"},
   periods |-> {19, 20, 35, 45, 72, 65537}, duties |-> {0, 38, 45}]

ArgsFrame ==
  [pins |-> {22, 26}, eint_pins |-> {13}, directions |-> {"out"},
   updowns |-> {"none"}, values |-> {0}, triggers |-> {"none"},
   periods |-> {45}, duties |-> {40}]

PeriodArgs ==
  ArgsOwn.periods \cup ArgsGpio.periods \cup ArgsEint.periods \cup ArgsPwm.periods
    \cup ArgsTrig.periods \cup ArgsSolve.periods \cup ArgsFrame.periods

\* The values best can have at the end of the search, per period argument.
PeriodTable == [period \in PeriodArgs |-> PeriodBests(period)]

NoRet == "None"

\* The controller after a call: the state the call left, and in last the
\* call, the exception it raised (Ok for none) and the value it returned.
Commit(op, pin, args, s, ret) ==
  /\ used' = s.used
  /\ mm' = s.mm
  /\ pwm_mm' = s.pwm_mm
  /\ mem' = s.mem
  /\ pwm_mem' = s.pwm_mem
  /\ last' = [op |-> op, pin |-> pin, args |-> args, exc |-> s.exc,
              ret |-> IF s.exc = Ok THEN ret ELSE NoRet]
  /\ UNCHANGED callers

GpioInit(A) ==
  \E pin \in A.pins, direction \in A.directions, updown \in A.updowns :
    Commit("gpio_init", pin, <<direction, updown>>,
           gpio_init(Cur, pin, direction, updown), NoRet)

GpioClose(A) ==
  \E pin \in A.pins : Commit("gpio_close", pin, <<>>, gpio_close(Cur, pin), NoRet)

GpioCloseAll(A) ==
  \E order \in PinOrders :
    Commit("gpio_close_all", 0, <<>>, gpio_close_all(Cur, order), NoRet)

GpioRead(A) ==
  \E pin \in A.pins :
    LET s == _gpio_mem_seek_addr(_pin_check(Cur, pin, _type_gpio), pin, GPIO_DATA_OFFSET)
    IN Commit("gpio_read", pin, <<>>, s, _gpio_read(s, pin))

GpioWrite(A) ==
  \E pin \in A.pins, value \in A.values :
    Commit("gpio_write", pin, <<value>>, gpio_write(Cur, pin, value), NoRet)

GpioDirection(A) ==
  \E pin \in A.pins, direction \in A.directions :
    Commit("gpio_direction", pin, <<direction>>, gpio_direction(Cur, pin, direction), NoRet)

GpioUpdown(A) ==
  \E pin \in A.pins, updown \in A.updowns :
    Commit("gpio_updown", pin, <<updown>>, gpio_updown(Cur, pin, updown), NoRet)

EintInit(A) ==
  \E pin \in A.eint_pins, trigger \in A.triggers :
    Commit("eint_init", pin, <<trigger>>, eint_init(Cur, pin, trigger), NoRet)

EintClose(A) ==
  \E pin \in A.pins : Commit("eint_close", pin, <<>>, eint_close(Cur, pin), NoRet)

EintCloseAll(A) ==
  \E order \in PinOrders :
    Commit("eint_close_all", 0, <<>>, eint_close_all(Cur, order), NoRet)

EintEvent(A) ==
  \E pin \in A.pins :
    LET s == _eint_mem_seek_addr(_pin_check(Cur, pin, _type_eint), EINT_PEND_OFFSET)
    IN Commit("eint_event", pin, <<>>, s, _eint_get_event(s, pin))

EintClear(A) ==
  \E pin \in A.pins : Commit("eint_clear", pin, <<>>, eint_clear(Cur, pin), NoRet)

PwmInit(A) ==
  \E pin \in A.pins, period \in A.periods, duty_cycle \in A.duties :
    \E best \in PeriodTable[period], up \in BOOLEAN :
      Commit("pwm_init", pin, <<period, duty_cycle>>,
             pwm_init(Cur, pin, period, duty_cycle, best, up), NoRet)

PwmClose(A) ==
  \E pin \in A.pins, order \in PinOrders :
    Commit("pwm_close", pin, <<>>, pwm_close(Cur, pin, order), NoRet)

PwmCloseAll(A) ==
  \E order \in PinOrders :
    Commit("pwm_close_all", 0, <<>>, pwm_close_all(Cur, order), NoRet)

PwmPeriod(A) ==
  \E pin \in A.pins, period \in A.periods :
    \E best \in PeriodTable[period] :
      Commit("pwm_period", pin, <<period>>, pwm_period(Cur, pin, period, best),
             PeriodError(period, best))

PwmDutyCycle(A) ==
  \E pin \in A.pins, duty_cycle \in A.duties, up \in BOOLEAN :
    Commit("pwm_duty_cycle", pin, <<duty_cycle>>,
           pwm_duty_cycle(Cur, pin, duty_cycle, up), NoRet)

PwmStart(A) ==
  \E pin \in A.pins : Commit("pwm_start", pin, <<>>, pwm_start(Cur, pin), NoRet)

PwmStop(A) ==
  \E pin \in A.pins : Commit("pwm_stop", pin, <<>>, pwm_stop(Cur, pin), NoRet)

PwmCounter(A) ==
  \E pin \in A.pins, value \in A.values :
    Commit("pwm_counter", pin, <<value>>, pwm_counter(Cur, pin, value), NoRet)

PwmCompare(A) ==
  \E pin \in A.pins, value \in A.values :
    Commit("pwm_compare", pin, <<value>>, pwm_compare(Cur, pin, value), NoRet)

\* The hardware latches a trigger on the interrupt line of a pin whose
\* function-select field routes the pin to the interrupt controller.
HwTrigger(A) ==
  \E pin \in A.eint_pins :
    /\ pin \in DOMAIN pins
    /\ HasNum(pin, _type_eint)
    /\ ConField(mem, pin) = FUNC_EINT
    /\ mem' = HwLatch(mem, pins[pin].eint.num)
    /\ last' = [op |-> "hw_trigger", pin |-> pin, args |-> <<>>, exc |-> Ok, ret |-> NoRet]
    /\ UNCHANGED <<used, mm, pwm_mm, pwm_mem, callers>>

\* GPIO.__init__: every pin unused, no window mapped; the registers hold 0.
\* The threads that call into one controller, and a thread that is in no
\* call.  A thread in a call holds the method, its arguments, the number pc
\* of the statement of the method it runs next and the exception it raised;
\* overlapped tells that a statement of another thread ran after the thread's
\* _pin_available and before its assignment to 'used'.
Callers == {1, 2}

NoCall ==
  [op |-> "", pin |-> 0, args |-> <<>>, pc |-> 0, exc |-> Ok, overlapped |-> FALSE]

Init ==
  /\ used = [pin \in DOMAIN pins |-> False]
  /\ mm = None
  /\ pwm_mm = None
  /\ mem = [a \in MemAddrs |-> 0]
  /\ pwm_mem = [a \in PwmAddrs |-> 0]
  /\ last = [op |-> "__init__", pin |-> 0, args |-> <<>>, exc |-> Ok, ret |-> NoRet]
  /\ callers = [c \in Callers |-> NoCall]

Next(A) ==
  \/ GpioInit(A)
  \/ GpioClose(A)
  \/ GpioCloseAll(A)
  \/ GpioRead(A)
  \/ GpioWrite(A)
  \/ GpioDirection(A)
  \/ GpioUpdown(A)
  \/ EintInit(A)
  \/ EintClose(A)
  \/ EintCloseAll(A)
  \/ EintEvent(A)
  \/ EintClear(A)
  \/ PwmInit(A)
  \/ PwmClose(A)
  \/ PwmCloseAll(A)
  \/ PwmPeriod(A)
  \/ PwmDutyCycle(A)
  \/ PwmStart(A)
  \/ PwmStop(A)
  \/ PwmCounter(A)
  \/ PwmCompare(A)
  \/ HwTrigger(A)

Spec == Init /\ [][Next(ArgsOwn)]_vars

SpecGpio == Init /\ [][Next(ArgsGpio)]_vars

SpecEint == Init /\ [][Next(ArgsEint)]_vars

SpecPwm == Init /\ [][Next(ArgsPwm)]_vars

SpecTrig == Init /\ [][Next(ArgsTrig)]_vars

SpecSolve == Init /\ [][Next(ArgsSolve)]_vars

SpecFrame == Init /\ [][Next(ArgsFrame)]_vars

(***************************************************************************)
(* Two threads in gpio_init and eint_init at once.  The class holds no     *)
(* lock, so the statements of the two calls interleave; each step below is *)
(* one statement of the method's body.                                     *)
(***************************************************************************)
ArgsRace == [pins |-> {13, 15}, eint_pins |-> {13, 15}, directions |-> {"in"}, updowns |-> {"up"}, values |-> {1}, triggers |-> {"rising"}, periods |-> {70}, duties |-> {40}]

\* A variant of GpioInitStmt whose first statement does not look at the
\* pin's usage.
GpioInitStmt_no_usage_test(st, pc, pin, args) ==
  CASE pc = 1 -> _pin_available_any_usage(st, pin, _type_gpio)
    [] pc = 2 -> OpenMem(st)
    [] pc = 3 -> _gpio_direction(st, pin, args[1])
    [] pc = 4 -> IF StrEqInt(Lower(args[1]), FUNC_OUT)
                 THEN _gpio_updown(st, pin, "none")
                 ELSE _gpio_updown(st, pin, args[2])
    [] pc = 5 -> SetUsed(st, pin, _type_gpio)

\* The pc-th statement of gpio_init(pin, direction, updown).
GpioInitStmt(st, pc, pin, args) ==
  CASE pc = 1 -> _pin_available(st, pin, _type_gpio)
    [] pc = 2 -> OpenMem(st)
    [] pc = 3 -> _gpio_direction(st, pin, args[1])
    [] pc = 4 -> IF StrEqInt(Lower(args[1]), FUNC_OUT)
                 THEN _gpio_updown(st, pin, "none")
                 ELSE _gpio_updown(st, pin, args[2])
    [] pc = 5 -> SetUsed(st, pin, _type_gpio)

\* The pc-th statement of eint_init(pin, trigger).
EintInitStmt(st, pc, pin, args) ==
  CASE pc = 1 -> _pin_available(st, pin, _type_eint)
    [] pc = 2 -> OpenMem(st)
    [] pc = 3 -> _gpio_function(st, pin, FUNC_EINT)
    [] pc = 4 -> IF args[1] \notin {"low", "high", "rising", "falling", "none", "both"}
                 THEN _value_error(st, ErrTriggerList)
                 ELSE st
    [] pc = 5 -> _eint_trigger(st, pin, args[1])
    [] pc = 6 -> _eint_clear_event(st, pin)
    [] pc = 7 -> SetUsed(st, pin, _type_eint)

\* The number of the last statement of the method, the assignment to 'used'.
LastStmt(op) == IF op = "gpio_init" THEN 5 ELSE 7

\* The thread is inside a call.
Running(c) ==
  /\ callers[c].op # ""
  /\ callers[c].exc = Ok
  /\ callers[c].pc <= LastStmt(callers[c].op)

\* The thread's call has returned without an exception.
Returned(c) ==
  /\ callers[c].op # ""
  /\ callers[c].exc = Ok
  /\ callers[c].pc > LastStmt(callers[c].op)

\* A thread in no call enters gpio_init or eint_init.
RaceCall(c, A) ==
  /\ callers[c].op = ""
  /\ \/ \E pin \in A.pins, direction \in A.directions, updown \in A.updowns :
          callers' = [callers EXCEPT ![c] = [NoCall EXCEPT !.op = "gpio_init",
                                                          !.pin = pin,
                                                          !.args = <<direction, updown>>,
                                                          !.pc = 1]]
     \/ \E pin \in A.eint_pins, trigger \in A.triggers :
          callers' = [callers EXCEPT ![c] = [NoCall EXCEPT !.op = "eint_init",
                                                          !.pin = pin,
                                                          !.args = <<trigger>>,
                                                          !.pc = 1]]
  /\ UNCHANGED <<used, mm, pwm_mm, mem, pwm_mem, last>>

\* A thread runs the next statement of its call.  The call is over when the
\* statement raises or was the last one, and is then recorded in last.
RaceStep(c) ==
  /\ Running(c)
  /\ LET call == callers[c]
         s == IF call.op = "gpio_init"
              THEN GpioInitStmt(Cur, call.pc, call.pin, call.args)
              ELSE EintInitStmt(Cur, call.pc, call.pin, call.args)
     IN /\ used' = s.used
        /\ mm' = s.mm
        /\ pwm_mm' = s.pwm_mm
        /\ mem' = s.mem
        /\ pwm_mem' = s.pwm_mem
        /\ callers' = [d \in Callers |->
                         IF d = c
                         THEN [call EXCEPT !.pc = call.pc + 1, !.exc = s.exc]
                         ELSE IF Running(d) /\ callers[d].pc > 1
                         THEN [callers[d] EXCEPT !.overlapped = TRUE]
                         ELSE callers[d]]
        /\ last' = IF s.exc # Ok \/ call.pc = LastStmt(call.op)
                   THEN [op |-> call.op, pin |-> call.pin, args |-> call.args,
                         exc |-> s.exc, ret |-> NoRet]
                   ELSE last

NextRace(A) ==
  \E c \in Callers :
    \/ RaceCall(c, A)
    \/ RaceStep(c)

SpecRace == Init /\ [][NextRace(ArgsRace)]_vars

(***************************************************************************)
(* Properties                                                              *)
(***************************************************************************)
\* The controller's state after the step, as a context.
Nxt ==
  [used |-> used', mm |-> mm', pwm_mm |-> pwm_mm', mem |-> mem',
   pwm_mem |-> pwm_mem', pos |-> 0, pwm_pos |-> 0, exc |-> Ok]

\* The step leaves the pins' usage, the windows and the registers alone.
StateUnchanged == UNCHANGED <<used, mm, pwm_mm, mem, pwm_mem>>

InitOps == {"gpio_init", "eint_init", "pwm_init"}

\* The methods that start with _pin_check.
CheckedOps ==
  {"gpio_read", "gpio_write", "gpio_direction", "gpio_updown", "gpio_close",
   "eint_event", "eint_clear", "eint_close",
   "pwm_period", "pwm_duty_cycle", "pwm_start", "pwm_stop", "pwm_close"}

\* The capability a method is about.
OpType(op) ==
  IF op \in {"gpio_init", "gpio_read", "gpio_write", "gpio_direction",
             "gpio_updown", "gpio_close"} THEN _type_gpio
  ELSE IF op \in {"eint_init", "eint_event", "eint_clear", "eint_close"} THEN _type_eint
  ELSE _type_pwm

\* The errors of _pin_available and _pin_check.
CheckErrors == {ErrNotValidPin, ErrBadFunctionType, ErrAlreadyInUse, ErrNotInitialized}

\* C1: after a successful gpio_init(p, 'out', u), for any pull u asked for,
\* the pull field of p holds UPDN_NONE.
C1_OutputPullNone ==
  (last.op = "gpio_init" /\ last.exc = Ok /\ Lower(last.args[1]) = "out")
    => PullField(mem, last.pin) = UPDN_NONE

\* C2 as stated: while p is held, every further init of p, with whatever
\* capability, fails with 'already in use' and leaves the usage of p.
C2_EveryInitBusy ==
  [][\A p \in DOMAIN pins :
       (used[p] # False /\ last'.pin = p /\ last'.op \in InitOps)
         => (last'.exc = ErrAlreadyInUse /\ used'[p] = used[p])]_vars

\* C2 as amended: a successful init of p as C leaves the usage of p at C;
\* while p is held as C, a method that requires (p, C) passes
\* the pin check; a further init of p fails with 'already in use' when p
\* lists the capability asked for and with 'Bad function type' when it does
\* not; either way the usage of p stays C.
C2_HeldPinExclusive ==
  [][/\ \A p \in DOMAIN pins :
       (used[p] # False /\ last'.pin = p)
         => /\ last'.op \in InitOps =>
                 /\ last'.exc = (IF OpType(last'.op) \in DOMAIN pins[p]
                                 THEN ErrAlreadyInUse ELSE ErrBadFunctionType)
                 /\ used'[p] = used[p]
            /\ (last'.op \in CheckedOps /\ OpType(last'.op) = used[p])
                 => last'.exc \notin CheckErrors
     /\ (last'.op \in InitOps /\ last'.exc = Ok)
          => used'[last'.pin] = OpType(last'.op)]_vars

\* C2 witness: an init of a held pin was rejected as busy.
C2_Witness ==
  /\ last.op \in InitOps
  /\ last.exc = ErrAlreadyInUse
  /\ used[last.pin] \notin {False, OpType(last.op)}

\* C3: an init of a pin that does not list the capability fails with 'Bad
\* function type' whatever the pin's usage, and changes nothing.
C3_UnsupportedCapability ==
  [][\A p \in DOMAIN pins :
       (last'.pin = p /\ last'.op \in InitOps /\ OpType(last'.op) \notin DOMAIN pins[p])
         => (last'.exc = ErrBadFunctionType /\ StateUnchanged)]_vars

\* C3 witness: the rejected init was on a pin in use.
C3_Witness ==
  /\ last.op \in InitOps
  /\ last.exc = ErrBadFunctionType
  /\ used[last.pin] # False

\* C4: a checked method on a free pin fails with 'not initialized', on a pin
\* held with another capability with 'already in use'; both change nothing.
C4_CheckedOpsRejected ==
  [][\A p \in DOMAIN pins :
       (last'.pin = p /\ last'.op \in CheckedOps)
         => /\ used[p] = False => (last'.exc = ErrNotInitialized /\ StateUnchanged)
            /\ used[p] \notin {False, OpType(last'.op)}
                 => (last'.exc = ErrAlreadyInUse /\ StateUnchanged)]_vars

\* C4 witness: a checked method was rejected on a pin held with another capability.
C4_Witness ==
  /\ last.op \in CheckedOps
  /\ last.exc = ErrAlreadyInUse
  /\ used[last.pin] \notin {False, OpType(last.op)}

\* C5: a successful gpio_write(p, v) leaves the data bit of p reading 1 when
\* v is truthy and 0 otherwise, and leaves what gpio_read returns for every
\* other pin held as gpio; gpio_read(p) returns that stored bit and changes
\* nothing.
C5_DataBitRoundTrip ==
  [][/\ (last'.op = "gpio_write" /\ last'.exc = Ok) =>
          /\ _gpio_read(Nxt, last'.pin) = (IF Truthy(last'.args[1]) THEN 1 ELSE 0)
          /\ \A q \in DOMAIN pins :
               (q # last'.pin /\ used[q] = _type_gpio)
                 => _gpio_read(Nxt, q) = _gpio_read(Cur, q)
     /\ (last'.op = "gpio_read" /\ last'.exc = Ok) =>
          /\ last'.ret = _gpio_read(Cur, last'.pin)
          /\ StateUnchanged
     /\ (last.op = "gpio_write" /\ last.exc = Ok /\ last'.op = "gpio_read"
         /\ last'.pin = last.pin) =>
          (last'.exc = Ok /\ last'.ret = (IF Truthy(last.args[1]) THEN 1 ELSE 0))]_vars

\* C5 witness: a value other than 0 and 1 was written, and another pin of the
\* same bank, held as gpio, reads 1.
C5_Witness ==
  /\ last.op = "gpio_write"
  /\ last.exc = Ok
  /\ last.args[1] = 2
  /\ DataBit(mem, last.pin) = 1
  /\ \E q \in DOMAIN pins :
       /\ q # last.pin
       /\ used[q] = _type_gpio
       /\ pins[q].bank = pins[last.pin].bank
       /\ DataBit(mem, q) = 1

\* The pins held on the GPIO register block by gpio_init or eint_init.
GpioBlockPins(u) == {p \in DOMAIN pins : u[p] \in {_type_gpio, _type_eint}}

NoPwmPins(u) == \A p \in DOMAIN pins : u[p] # _type_pwm

\* C6: with no pin held as pwm, a successful gpio_close or eint_close leaves
\* the GPIO window open while another pin is held on the block and closed
\* when the pin closed was the last one; a successful gpio_init or eint_init
\* leaves the window open, and neither init ever reaches a register through
\* a closed window.
C6_GpioWindowLifecycle ==
  [][/\ (last'.op \in {"gpio_close", "eint_close"} /\ last'.exc = Ok /\ NoPwmPins(used)) =>
          /\ GpioBlockPins(used') = GpioBlockPins(used) \ {last'.pin}
          /\ GpioBlockPins(used') # {} => mm' = Mapped
          /\ GpioBlockPins(used') = {} => mm' = None
     /\ (last'.op \in {"gpio_init", "eint_init"}) =>
          /\ last'.exc # ErrAttribute
          /\ last'.exc = Ok => (mm' = Mapped /\ last'.pin \in GpioBlockPins(used'))]_vars

\* C6 witness: a pin was closed while another one is held, and the window is
\* open.
C6_Witness ==
  /\ last.op \in {"gpio_close", "eint_close"}
  /\ last.exc = Ok
  /\ NoPwmPins(used)
  /\ GpioBlockPins(used) # {}
  /\ mm = Mapped

\* C7: when pwm_close or pwm_close_all releases the last pin held as pwm, the
\* PWM window is closed afterwards.
C7_PwmWindowClosed ==
  [][(/\ last'.op \in {"pwm_close", "pwm_close_all"}
      /\ ~NoPwmPins(used)
      /\ NoPwmPins(used')) => pwm_mm' = None]_vars

\* C8: pwm_close(p) on a pin held as pwm completes without raising, stops the
\* channel, zeroes its compare and counter registers, resets its divider
\* field and the pin's function-select field, frees the pin, and resets the
\* prescaler field exactly when no other pin is held as pwm.
C8_PwmCloseEffects ==
  [][\A p \in DOMAIN pins :
       (last'.op = "pwm_close" /\ last'.pin = p /\ used[p] = _type_pwm) =>
         /\ last'.exc = Ok
         /\ PwmTconField(pwm_mem', p) = 0
         /\ CompareField(pwm_mem', p) = 0
         /\ CounterField(pwm_mem', p) = 0
         /\ DividerField(pwm_mem', p) = PWM_TCFG_RESET
         /\ ConField(mem', p) = FUNC_RESET
         /\ used'[p] = False
         /\ PrescalerField(pwm_mem') =
              (IF NoPwmPins(used') THEN PWM_TCFG_RESET ELSE PrescalerField(pwm_mem))]_vars

\* C9: a successful eint_clear(p) or eint_init(p, trigger) leaves the pending
\* bit of p at 0; while p is held as eint the bit goes from 0 to 1 only by a
\* trigger on the line of p; eint_event(p) returns the bit and changes
\* nothing.
C9_ClearThenPoll ==
  [][\A p \in {q \in DOMAIN pins : HasNum(q, _type_eint)} :
       /\ (last'.pin = p /\ last'.op \in {"eint_clear", "eint_init"} /\ last'.exc = Ok)
            => PendBit(mem', p) = 0
       /\ (used[p] = _type_eint /\ PendBit(mem, p) = 0 /\ PendBit(mem', p) = 1)
            => (last'.op = "hw_trigger" /\ last'.pin = p)
       /\ (last'.pin = p /\ last'.op = "eint_event" /\ last'.exc = Ok)
            => (last'.ret = PendBit(mem, p) /\ StateUnchanged)
       /\ (last.pin = p /\ last.op \in {"eint_clear", "eint_init"} /\ last.exc = Ok
           /\ last'.pin = p /\ last'.op = "eint_event")
            => (last'.exc = Ok /\ last'.ret = 0)]_vars

\* C9 witness: eint_event returned 0 on a pin held as eint while another line
\* is pending.
C9_Witness ==
  /\ last.op = "eint_event"
  /\ last.exc = Ok
  /\ last.ret = 0
  /\ \E q \in DOMAIN pins : HasNum(q, _type_eint) /\ q # last.pin /\ PendBit(mem, q) = 1

\* C10: a successful eint_clear(p) leaves the pending bit of every other
\* interrupt line as it was.
C10_ClearPreservesOthers ==
  [][(last'.op = "eint_clear" /\ last'.exc = Ok) =>
       \A q \in DOMAIN pins :
         (HasNum(q, _type_eint) /\ q # last'.pin) => PendBit(mem', q) = PendBit(mem, q)]_vars

\* The words that hold the trigger fields of the interrupt lines.
TrigWords == {EINT_CONT_OFFSET, EINT_CONT_OFFSET + 4, EINT_CONT_OFFSET + 8}

\* A successful eint_init of a pin on line L leaves the trigger code in the 3
\* bits at (L * stride) mod 32 of the word at
\* EINT_CONT_OFFSET + 4 * floor(L * stride / 32), and leaves every other bit
\* of the trigger words.
TrigPlaced(stride) ==
  (last'.op = "eint_init" /\ last'.exc = Ok) =>
    LET L == pins[last'.pin].eint.num
        addr == EINT_CONT_OFFSET + 4 * ((L * stride) \div 32)
        shift == (L * stride) % 32
    IN /\ BitAnd(7, Shr(mem'[addr], shift)) = TrigCode(last'.args[1])
       /\ BitAndNot(mem'[addr], Shl(7, shift)) = BitAndNot(mem[addr], Shl(7, shift))
       /\ \A a \in TrigWords \ {addr} : mem'[a] = mem[a]

\* C11 as stated: eint_init places the trigger code of line L at bit
\* (L*3) mod 32 of the word at EINT_CONT_OFFSET + 4*floor(L*3/32) and changes
\* no other bit of the trigger words.
C11_TriggerFieldEvery3Bits == [][TrigPlaced(3)]_vars

\* C11 as amended: eint_init places the trigger code of line L at bit
\* (L*4) mod 32 of the word at EINT_CONT_OFFSET + 4*floor(L*4/32) and changes
\* no other bit of the trigger words.
C11_TriggerFieldEvery4Bits == [][TrigPlaced(4)]_vars

\* C11 witness: eint_init wrote a code other than 0 for a line beyond the
\* first word, while the field of another line holds a code other than 0.
C11_Witness ==
  /\ last.op = "eint_init"
  /\ last.exc = Ok
  /\ pins[last.pin].eint.num >= 16
  /\ TrigField(mem, last.pin) = EINT_BOTH
  /\ \E q \in DOMAIN pins :
       HasNum(q, _type_eint) /\ q # last.pin /\ TrigField(mem, q) # 0

\* The step is a pwm_period or a pwm_init whose pin check passed, so that
\* it ran _pwm_period.
SolverRan ==
  \/ last'.op = "pwm_period" /\ last'.pin \in DOMAIN pins
       /\ used[last'.pin] = _type_pwm
  \/ last'.op = "pwm_init" /\ HasNum(last'.pin, _type_pwm)
       /\ used[last'.pin] = False

\* The shortest period the range check lets through: one tick of the
\* undivided clock.
min_period_ns == (NS_PER_S \div PWM_CLK) * PWM_DIVIDERS[1]

\* C12: no call ever fails with 'Period configuration could not be
\* determined.'; a pwm_period or pwm_init that reaches the solver with a
\* period below the shortest one fails with 'Period out of range' and leaves
\* every PWM timer register as it was, and with a period in range it does not
\* fail with either error.
C12_SolverFeasible ==
  [][/\ last'.exc # ErrPeriodConfig
     /\ SolverRan =>
          IF last'.args[1] < min_period_ns
          THEN last'.exc = ErrPeriodRange /\ pwm_mem' = pwm_mem
          ELSE last'.exc # ErrPeriodRange]_vars

\* C12 witness: the shortest period in range was set, with a counter of one
\* tick of the undivided clock.
C12_Witness ==
  /\ last.op = "pwm_period"
  /\ last.exc = Ok
  /\ last.args[1] = min_period_ns
  /\ CounterField(pwm_mem, last.pin) = 1
  /\ PrescalerField(pwm_mem) = 0
  /\ DividerField(pwm_mem, last.pin) = 0

\* C13: after a successful pwm_period or pwm_init with period P, the counter
\* stored is between 1 and 65535, the prescaler between 0 and 255, the
\* divider one of the board's, and counter ticks differ from P by at most
\* one tick; pwm_period returns counter ticks minus P.
C13_SolverAccuracy ==
  [][(last'.op \in {"pwm_period", "pwm_init"} /\ last'.exc = Ok) =>
       LET counter == CounterField(pwm_mem', last'.pin)
           prescaler == PrescalerField(pwm_mem')
           divider == DividerField(pwm_mem', last'.pin)
           tick_ns == TickNs(prescaler, divider)
       IN /\ divider < Len(PWM_DIVIDERS)
          /\ 1 <= counter /\ counter <= MAX_COUNT
          /\ 0 <= prescaler /\ prescaler <= MAX_PRESCALE
          /\ AbsDiff(counter * tick_ns, last'.args[1]) <= tick_ns
          /\ last'.op = "pwm_period" =>
               last'.ret = counter * tick_ns - last'.args[1]]_vars

\* C13 witness: pwm_period(pin, 65537) stored 29 ticks of 2260 ns and
\* returned an error of 3 ns.
C13_Witness ==
  /\ last.op = "pwm_period"
  /\ last.exc = Ok
  /\ CounterField(pwm_mem, last.pin) > 1
  /\ PrescalerField(pwm_mem) > 0
  /\ last.ret = CounterField(pwm_mem, last.pin)
                  * TickNs(PrescalerField(pwm_mem), DividerField(pwm_mem, last.pin))
                  - last.args[1]
  /\ last.ret > 0

\* C14: a pwm_duty_cycle(pin, P) that follows a successful pwm_period(pin, P)
\* succeeds and stores the counter as compare; a pwm_init(pin, P, P) that
\* reaches the solver with P in range succeeds and leaves compare equal to
\* the counter; pwm_duty_cycle(pin, 0) on a pin held as pwm stores compare 0.
C14_DutyAtPeriod ==
  [][/\ (/\ last.op = "pwm_period" /\ last.exc = Ok
         /\ last'.op = "pwm_duty_cycle" /\ last'.pin = last.pin
         /\ last'.args[1] = last.args[1]) =>
          /\ last'.exc = Ok
          /\ CompareField(pwm_mem', last'.pin) = CounterField(pwm_mem, last'.pin)
     /\ (/\ last'.op = "pwm_init" /\ SolverRan
         /\ last'.args[1] >= min_period_ns
         /\ last'.args[2] = last'.args[1]) =>
          /\ last'.exc = Ok
          /\ CompareField(pwm_mem', last'.pin) = CounterField(pwm_mem', last'.pin)
     /\ (/\ last'.op = "pwm_duty_cycle" /\ last'.pin \in DOMAIN pins
         /\ used[last'.pin] = _type_pwm /\ last'.args[1] = 0) =>
          /\ last'.exc = Ok
          /\ CompareField(pwm_mem', last'.pin) = 0]_vars

\* C15: a pwm_duty_cycle(pin, D) that follows a successful pwm_init or
\* pwm_period of the same pin with period P < D fails with 'Duty cycle must
\* be shorter than period.' and leaves the compare register as it was.
C15_DutyAbovePeriodRejected ==
  [][(/\ last.op \in {"pwm_init", "pwm_period"} /\ last.exc = Ok
      /\ last'.op = "pwm_duty_cycle" /\ last'.pin = last.pin
      /\ last'.args[1] > last.args[1]) =>
       /\ last'.exc = ErrDuty
       /\ CompareField(pwm_mem', last'.pin) = CompareField(pwm_mem, last'.pin)]_vars

\* The bits of the TCON word outside the field of the pin's channel.
TconOthers(m, pin) == BitAndNot(m[PWM_TCON_OFFSET], Shl(MASK4, pins[pin].pwm.num * 8))

\* C16: a successful pwm_start writes the TCON field of the pin's channel
\* twice: first with the manual-update bit (2) set and the run bit (1)
\* clear, then with the manual-update bit clear and the run and auto-reload
\* (8) bits set, which is what the field holds when the call ends; a
\* successful pwm_stop leaves the field 0; both leave the TCON bits of the
\* other channels and every other PWM register as they were.
C16_StartStopSequence ==
  [][/\ (last'.op = "pwm_start" /\ last'.exc = Ok) =>
          LET writes == PwmEnableWrites(Cur, last'.pin)
              first == PwmTconField(writes[1].pwm_mem, last'.pin)
              second == PwmTconField(writes[2].pwm_mem, last'.pin)
          IN /\ Len(writes) = 2
             /\ BitAnd(first, 2) = 2 /\ BitAnd(first, 1) = 0
             /\ BitAnd(second, 2) = 0 /\ BitAnd(second, 1) = 1 /\ BitAnd(second, 8) = 8
             /\ TconOthers(writes[1].pwm_mem, last'.pin) = TconOthers(pwm_mem, last'.pin)
             /\ pwm_mem' = writes[2].pwm_mem
             /\ PwmTconField(pwm_mem', last'.pin) = 9
     /\ (last'.op = "pwm_stop" /\ last'.exc = Ok) =>
          PwmTconField(pwm_mem', last'.pin) = 0
     /\ (last'.op \in {"pwm_start", "pwm_stop"} /\ last'.exc = Ok) =>
          /\ TconOthers(pwm_mem', last'.pin) = TconOthers(pwm_mem, last'.pin)
          /\ \A a \in DOMAIN pwm_mem \ {PWM_TCON_OFFSET} : pwm_mem'[a] = pwm_mem[a]]_vars

\* C16 witness: a timer was started while the timer of another channel is
\* running.
C16_Witness ==
  /\ last.op = "pwm_start"
  /\ last.exc = Ok
  /\ PwmTconField(pwm_mem, last.pin) = 9
  /\ TconOthers(pwm_mem, last.pin) # 0

\* C17: gpio_close of a pin held as gpio returns without error, leaves the
\* pin's data bit 0, its function field 0, its pull field UPDN_RESET and the
\* pin free, and leaves the data bit, the function field and the pull field
\* of every other pin as they were.
C17_GpioCloseResets ==
  [][\A p \in DOMAIN pins :
       (last'.op = "gpio_close" /\ last'.pin = p /\ used[p] = _type_gpio) =>
         /\ last'.exc = Ok
         /\ DataBit(mem', p) = DATA_RESET
         /\ ConField(mem', p) = FUNC_RESET
         /\ PullField(mem', p) = UPDN_RESET
         /\ used'[p] = False
         /\ \A q \in DOMAIN pins \ {p} :
              /\ DataBit(mem', q) = DataBit(mem, q)
              /\ ConField(mem', q) = ConField(mem, q)
              /\ PullField(mem', q) = PullField(mem, q)
              /\ used'[q] = used[q]]_vars

\* C17 witness: a pin was closed while another pin of its bank is held as
\* gpio with its data bit set and its pull field not at the reset value.
C17_Witness ==
  /\ last.op = "gpio_close"
  /\ last.exc = Ok
  /\ used[last.pin] = False
  /\ PullField(mem, last.pin) = UPDN_RESET
  /\ \E q \in DOMAIN pins :
       /\ used[q] = _type_gpio
       /\ pins[q].bank = pins[last.pin].bank
       /\ DataBit(mem, q) = 1
       /\ PullField(mem, q) # UPDN_RESET

\* C18: gpio_close_all or pwm_close_all as the first call on a controller,
\* and a gpio_close_all that follows a successful gpio_close_all, returns
\* without error and leaves the pins' usage, the windows and the registers
\* as they were.
C18_ReleaseIdempotent ==
  [][/\ (last.op = "__init__" /\ last'.op \in {"gpio_close_all", "pwm_close_all"})
          => (last'.exc = Ok /\ StateUnchanged)
     /\ (last.op = "gpio_close_all" /\ last.exc = Ok /\ last'.op = "gpio_close_all")
          => (last'.exc = Ok /\ StateUnchanged)]_vars

CloseOps == {"gpio_close", "eint_close", "pwm_close"}

\* C19: a gpio_close, eint_close or pwm_close of a pin held with the
\* capability of the call leaves the pin free, whether the call returns or
\* raises; an init of the pin that follows such a close does not fail with
\* 'already in use'.
C19_CloseFreesPin ==
  [][/\ \A p \in DOMAIN pins :
          (last'.op \in CloseOps /\ last'.pin = p /\ used[p] = OpType(last'.op))
            => used'[p] = False
     /\ (/\ last.op \in CloseOps /\ last.exc \notin CheckErrors
         /\ last'.op \in InitOps /\ last'.pin = last.pin)
          => last'.exc # ErrAlreadyInUse]_vars

\* C19 witness: a close raised after the pin check, and the pin is free.
C19_Witness ==
  /\ last.op \in CloseOps
  /\ last.exc \notin CheckErrors \cup {Ok}
  /\ used[last.pin] = False

\* C20: eint_close_all returns without error; every pin that was held as
\* eint is free afterwards with its trigger field 0, and every pin held as
\* gpio or pwm keeps its usage, its data bit, its function and pull fields,
\* and the PWM registers are as they were.
C20_EintCloseAll ==
  [][last'.op = "eint_close_all" =>
       /\ last'.exc = Ok
       /\ pwm_mem' = pwm_mem
       /\ \A p \in DOMAIN pins :
            /\ used[p] = _type_eint =>
                 (used'[p] = False /\ TrigField(mem', p) = EINT_RESET)
            /\ used[p] \in {_type_gpio, _type_pwm} =>
                 /\ used'[p] = used[p]
                 /\ DataBit(mem', p) = DataBit(mem, p)
                 /\ ConField(mem', p) = ConField(mem, p)
                 /\ PullField(mem', p) = PullField(mem, p)]_vars

\* One pass of the search on exact rationals: the candidate replaces best
\* only when its error is strictly smaller.
FirstFoundStep(period_ns, div_idx, pre_cnt, best) ==
  LET tick == TickNs(pre_cnt, div_idx)
      counter == RoundDiv(period_ns, tick)
      diff == [num |-> AbsDiff(counter * tick, period_ns), den |-> tick]
  IN IF FitsMax(period_ns, tick) /\ period_ns >= tick /\ FracLess(diff, best.diff)
     THEN [diff |-> diff, counter |-> counter, prescaler |-> pre_cnt,
           divider |-> div_idx]
     ELSE best

RECURSIVE FirstFoundSearch(_, _, _, _)
\* Passes lo .. hi-1 of the search on exact rationals.
FirstFoundSearch(period_ns, lo, hi, best) ==
  IF hi <= lo THEN best
  ELSE IF hi = lo + 1
       THEN FirstFoundStep(period_ns, LoopDivIdx(lo), LoopPreCnt(lo), best)
  ELSE LET mid == (lo + hi) \div 2
           first == FirstFoundSearch(period_ns, lo, mid, best)
       IN IF first.counter >= NoCounter
          THEN FirstFoundSearch(period_ns, mid, hi, first)
          ELSE first

\* Per period argument, the pair of least error that the enumeration order
\* (divider index descending, prescaler descending within it) meets first.
FirstFound ==
  [period \in PeriodArgs |-> FirstFoundSearch(period, 0, LoopPasses, PeriodBestInit)]

\* The error of the pair stored in the registers for the period asked for.
StoredError(m, pin, period_ns) ==
  [num |-> AbsDiff(CounterField(m, pin) * TickNs(PrescalerField(m), DividerField(m, pin)),
                   period_ns),
   den |-> TickNs(PrescalerField(m), DividerField(m, pin))]

\* After a successful pwm_period or pwm_init no pair has a smaller error
\* than the pair stored.
SolverOptimal ==
  (last'.op \in {"pwm_period", "pwm_init"} /\ last'.exc = Ok) =>
    ~FracLess(FirstFound[last'.args[1]].diff,
              StoredError(pwm_mem', last'.pin, last'.args[1]))

\* After a successful pwm_period or pwm_init the pair stored is the first
\* of least error in the enumeration order.
SolverFirstFound ==
  (last'.op \in {"pwm_period", "pwm_init"} /\ last'.exc = Ok) =>
    /\ PrescalerField(pwm_mem') = FirstFound[last'.args[1]].prescaler
    /\ DividerField(pwm_mem', last'.pin) = FirstFound[last'.args[1]].divider
    /\ CounterField(pwm_mem', last'.pin) = FirstFound[last'.args[1]].counter

\* C21: after a successful pwm_period or pwm_init, the (prescaler, divider)
\* pair stored has the least rounding error of all pairs that can hold the
\* period, and among the pairs of least error it is the first in the
\* enumeration order.
C21_OptimalFirstFound == [][SolverOptimal /\ SolverFirstFound]_vars

\* compare <= counter for every pin held as pwm.
DutyWithinPeriod(u, m) ==
  \A p \in DOMAIN pins :
    u[p] = _type_pwm => CompareField(m, p) <= CounterField(m, p)

\* C22: a successful pwm_init, pwm_period or pwm_duty_cycle made in a state
\* where every pin held as pwm has compare <= counter leads to a state where
\* that is so again.
C22_CompareWithinCounter ==
  [][(/\ last'.op \in {"pwm_init", "pwm_period", "pwm_duty_cycle"}
      /\ last'.exc = Ok
      /\ DutyWithinPeriod(used, pwm_mem))
       => DutyWithinPeriod(used', pwm_mem')]_vars

\* Word a of m and n agrees outside the bits of mask.
SameOutside(m, n, a, mask) == BitAndNot(m[a], mask) = BitAndNot(n[a], mask)

\* The step changes, of the GPIO registers, at most the 2 bits of the pin
\* in the register of its bank at offset_bank.
OnlyGpioField2(pin, offset_bank) ==
  /\ SameOutside(mem', mem, BankAddr(pin, offset_bank), Shl(3, pins[pin].gpio.num * 2))
  /\ \A a \in DOMAIN mem \ {BankAddr(pin, offset_bank)} : mem'[a] = mem[a]

\* The words of the PWM block that hold a field of the pin's channel or the
\* shared prescaler.
PwmWordsOf(pin) ==
  {PWM_TCFG0_OFFSET, PWM_TCFG1_OFFSET, PwmBufferAddr(pins[pin].pwm.num),
   PwmBufferAddr(pins[pin].pwm.num) + 4}

\* C23: a successful gpio_direction or gpio_updown changes at most the 2
\* bits of its pin in the control or the pull register of the pin's bank; a
\* successful pwm_period changes at most the prescaler field, the 4 divider
\* bits of its channel in TCFG1 and the 16 counter bits of its channel; a
\* successful pwm_duty_cycle at most the 16 compare bits of its channel; so
\* the counter, compare and divider fields of every other channel stay, and
\* every other register word is as it was.
C23_FieldWritesOnly ==
  [][/\ (last'.op = "gpio_direction" /\ last'.exc = Ok) =>
          (OnlyGpioField2(last'.pin, GPIO_CON_OFFSET) /\ pwm_mem' = pwm_mem)
     /\ (last'.op = "gpio_updown" /\ last'.exc = Ok) =>
          (OnlyGpioField2(last'.pin, GPIO_UPD_OFFSET) /\ pwm_mem' = pwm_mem)
     /\ (last'.op = "pwm_period" /\ last'.exc = Ok) =>
          /\ mem' = mem
          /\ SameOutside(pwm_mem', pwm_mem, PWM_TCFG0_OFFSET, MASK8)
          /\ SameOutside(pwm_mem', pwm_mem, PWM_TCFG1_OFFSET,
                         Shl(MASK4, pins[last'.pin].pwm.num * 4))
          /\ SameOutside(pwm_mem', pwm_mem, PwmBufferAddr(pins[last'.pin].pwm.num), MASK16)
          /\ pwm_mem'[PwmBufferAddr(pins[last'.pin].pwm.num) + 4]
               = pwm_mem[PwmBufferAddr(pins[last'.pin].pwm.num) + 4]
          /\ \A a \in DOMAIN pwm_mem \ PwmWordsOf(last'.pin) : pwm_mem'[a] = pwm_mem[a]
     /\ (last'.op = "pwm_duty_cycle" /\ last'.exc = Ok) =>
          /\ mem' = mem
          /\ SameOutside(pwm_mem', pwm_mem, PwmBufferAddr(pins[last'.pin].pwm.num) + 4,
                         MASK16)
          /\ \A a \in DOMAIN pwm_mem \ {PwmBufferAddr(pins[last'.pin].pwm.num) + 4} :
               pwm_mem'[a] = pwm_mem[a]
     /\ (last'.op \in {"pwm_period", "pwm_duty_cycle"} /\ last'.exc = Ok) =>
          \A q \in DOMAIN pins :
            (HasNum(q, _type_pwm) /\ q # last'.pin) =>
              /\ CounterField(pwm_mem', q) = CounterField(pwm_mem, q)
              /\ CompareField(pwm_mem', q) = CompareField(pwm_mem, q)
              /\ DividerField(pwm_mem', q) = DividerField(pwm_mem, q)]_vars

\* C23 witness: the period of one channel was set while another channel is
\* held as pwm with a divider, a counter and a compare value other than 0.
C23_Witness ==
  /\ last.op = "pwm_period"
  /\ last.exc = Ok
  /\ \E q \in DOMAIN pins :
       /\ q # last.pin
       /\ used[q] = _type_pwm
       /\ DividerField(pwm_mem, q) # 0
       /\ CounterField(pwm_mem, q) # 0
       /\ CompareField(pwm_mem, q) # 0

\* The fields of pin p in the GPIO registers are the same in m and n.
SameGpioFields(m, n, p) ==
  /\ DataBit(m, p) = DataBit(n, p)
  /\ ConField(m, p) = ConField(n, p)
  /\ PullField(m, p) = PullField(n, p)
  /\ HasNum(p, _type_eint) => TrigField(m, p) = TrigField(n, p)

\* The fields of the channel of pin p in the PWM registers are the same in
\* m and n.
SamePwmFields(m, n, p) ==
  /\ CounterField(m, p) = CounterField(n, p)
  /\ CompareField(m, p) = CompareField(n, p)
  /\ DividerField(m, p) = DividerField(n, p)
  /\ PwmTconField(m, p) = PwmTconField(n, p)

\* C24: a call other than an init leaves the GPIO fields and the PWM fields
\* of every free pin as they were; pwm_counter and pwm_compare on a pin of
\* the board that is not held as pwm fail and write nothing.
C24_OwnershipGatesWrites ==
  [][/\ (last'.op \notin InitOps \cup {"hw_trigger"}) =>
          \A p \in DOMAIN pins :
            used[p] = False =>
              /\ SameGpioFields(mem', mem, p)
              /\ HasNum(p, _type_pwm) => SamePwmFields(pwm_mem', pwm_mem, p)
     /\ (/\ last'.op \in {"pwm_counter", "pwm_compare"}
         /\ last'.pin \in DOMAIN pins
         /\ used[last'.pin] # _type_pwm)
          => (last'.exc # Ok /\ StateUnchanged)]_vars

\* C25: while any pin is held the GPIO window is open, and while any pin is
\* held as pwm the PWM window is open; a method that starts with _pin_check
\* never fails on a closed window.
C25_WindowsOpenWhileHeld ==
  /\ (\E p \in DOMAIN pins : used[p] # False) => mm = Mapped
  /\ (\E p \in DOMAIN pins : used[p] = _type_pwm) => pwm_mm = Mapped
  /\ last.op \in CheckedOps => last.exc # ErrAttribute

\* A close has just released one pin while another is still held as pwm and
\* both windows are open.
C25_Witness ==
  /\ last.op \in CloseOps
  /\ last.pin \in DOMAIN pins
  /\ used[last.pin] = False
  /\ \E p \in DOMAIN pins : used[p] = _type_pwm
  /\ mm = Mapped
  /\ pwm_mm = Mapped

\* The errors an init raises for an argument it does not accept.
InitArgErrors ==
  {ErrBadGpioFunc, ErrBadGpioUpdown, ErrTrigger, ErrTriggerList,
   ErrPeriodRange, ErrDuty}

\* C26: a gpio_init, eint_init or pwm_init that raises for an argument it
\* does not accept leaves the pin free, every register word as it was and,
\* when no pin is held, both windows as they were.
C26_FailedInitAtomic ==
  [][(last'.op \in InitOps /\ last'.exc \in InitArgErrors) =>
       /\ used' = used
       /\ used'[last'.pin] = False
       /\ mem' = mem
       /\ pwm_mem' = pwm_mem
       /\ (\A p \in DOMAIN pins : used'[p] = False) =>
            (mm' = mm /\ pwm_mm' = pwm_mm)]_vars

\* C27: a pin held as eint that a step leaves free has the reset code in its
\* trigger field after that step; gpio_close_all changes the usage only of
\* pins held as gpio.
C27_EintFreedWithoutTrigger ==
  [][/\ \A p \in DOMAIN pins :
          (used[p] = _type_eint /\ used'[p] = False) =>
            TrigField(mem', p) = EINT_RESET
     /\ last'.op = "gpio_close_all" =>
          \A p \in DOMAIN pins : used'[p] # used[p] => used[p] = _type_gpio]_vars

\* Both threads have returned from an init of the same pin.
BothAcquired ==
  /\ \A c \in Callers : Returned(c)
  /\ callers[1].pin = callers[2].pin

\* C28: two threads return without an exception from inits of the same free
\* pin only when the statements of one ran between the other's availability
\* check and its assignment to 'used'; a call whose check and assignment are
\* not separated by the other thread never acquires a pin together with it.
C28_AcquireRace ==
  BothAcquired => \E c \in Callers : callers[c].overlapped

\* gpio_init and eint_init of the same pin have both returned without an
\* exception, and the pin carries the pull of the one and the function and
\* trigger of the other.
C28_Witness ==
  /\ BothAcquired
  /\ {callers[1].op, callers[2].op} = {"gpio_init", "eint_init"}
  /\ used[callers[1].pin] = _type_gpio
  /\ ConField(mem, callers[1].pin) = FUNC_EINT
  /\ PullField(mem, callers[1].pin) = UPDN_UP
  /\ TrigField(mem, callers[1].pin) = EINT_RISE

====
